---- MODULE Spec2Model ----
(***************************************************************************)
(* Chat-history normalization layer of LinguaTravel.                       *)
(*                                                                         *)
(*   src/src/utils/history.py   normalize_history                          *)
(*   src/src/ui.py              to_internal_history, to_gradio_history     *)
(*                                                                         *)
(* A Python value is a pair <<type, val>>: the Python type name and the    *)
(* payload (a TLA+ string for str, an integer for int, a boolean for bool, *)
(* a sequence of values for list and tuple, a sequence of <<key, value>>   *)
(* pairs in insertion order for dict).  An uncaught exception is the       *)
(* pseudo-value <<"raise", name>>.                                         *)
(***************************************************************************)
EXTENDS Integers, Sequences, FiniteSets, TLC

VARIABLES
    history,      \* the payload handed in by the chat widget
    GRADIO_V6,    \* ui.py:15, fixed when the module is imported
    pc,           \* which function or handler has run on the payload
    normalized,   \* result of the last normalize_history call
    internal,     \* result of to_internal_history(history)
    messages,     \* the argument to_gradio_history was called with
    displayed,    \* result of to_gradio_history(messages)
    chatbot,               \* ui.py:240, what the chat widget shows
    asked,                 \* the text the handler sends to the model
    response,              \* ui.py:127, the text a handler has gathered
    updates,               \* the histories a handler has yielded so far
    chunks,                \* what generate_response has yielded so far
    conversation_history,  \* ollama_service.py:20
    full_response,         \* ollama_service.py:128
    gen,                   \* is a generate_response generator open
    steps,                 \* generator steps taken so far
    consumed,              \* was every generator run to its end
    index,                 \* ui.py:71, `i` of the legacy scan
    legacy_pairs,          \* ui.py:70, `legacy` of the legacy scan
    visits                 \* how often the scan has passed each message

chatVars == <<chatbot, asked, response, updates, chunks, conversation_history, full_response,
              gen, steps, consumed>>

scanVars == <<index, legacy_pairs, visits>>

vars == <<history, GRADIO_V6, pc, normalized, internal, messages, displayed, chatVars,
          scanVars>>

(***************************************************************************)
(* Python values                                                           *)
(***************************************************************************)
PyNone == <<"NoneType", <<>>>>
PyStr(s) == <<"str", s>>
PyInt(n) == <<"int", n>>
PyBool(b) == <<"bool", b>>
PyList(items) == <<"list", items>>
PyTuple(items) == <<"tuple", items>>
PyDict(kvs) == <<"dict", kvs>>
Raise(exc) == <<"raise", exc>>
NotCalled == <<"unset", <<>>>>

TypeOf(v) == v[1]
ValOf(v) == v[2]

IsStr(v) == TypeOf(v) = "str"
IsDict(v) == TypeOf(v) = "dict"
IsListOrTuple(v) == TypeOf(v) \in {"list", "tuple"}
IsRaise(v) == TypeOf(v) = "raise"

\* len(x) of a list, tuple or dict
PyLen(v) == Len(ValOf(v))

\* `key in d` for a dict d
HasKey(d, key) == \E i \in 1..Len(ValOf(d)) : ValOf(d)[i][1] = key

\* d.get(key, default)
Get(d, key, default) ==
    IF HasKey(d, key)
    THEN ValOf(d)[CHOOSE i \in 1..Len(ValOf(d)) : ValOf(d)[i][1] = key][2]
    ELSE default

\* bool(x): Python truthiness
Truthy(v) ==
    CASE TypeOf(v) = "NoneType" -> FALSE
      [] TypeOf(v) = "bool" -> ValOf(v)
      [] TypeOf(v) = "int" -> ValOf(v) # 0
      [] TypeOf(v) = "str" -> ValOf(v) # ""
      [] OTHER -> Len(ValOf(v)) > 0

\* sep.join(strs) over a sequence of TLA+ strings
RECURSIVE Join(_, _)
Join(strs, sep) ==
    IF Len(strs) = 0 THEN ""
    ELSE IF Len(strs) = 1 THEN strs[1]
    ELSE strs[1] \o sep \o Join(Tail(strs), sep)

\* str(x) and repr(x).  repr of a str puts it in single quotes: the strings
\* of the model hold no quote, backslash or control character.
RECURSIVE Str(_), Repr(_)
Str(v) ==
    CASE TypeOf(v) = "NoneType" -> "None"
      [] TypeOf(v) = "bool" -> IF ValOf(v) THEN "True" ELSE "False"
      [] TypeOf(v) = "int" -> ToString(ValOf(v))
      [] TypeOf(v) = "str" -> ValOf(v)
      [] TypeOf(v) = "list" ->
            "[" \o Join([i \in 1..Len(ValOf(v)) |-> Repr(ValOf(v)[i])], ", ") \o "]"
      [] TypeOf(v) = "tuple" ->
            IF Len(ValOf(v)) = 1 THEN "(" \o Repr(ValOf(v)[1]) \o ",)"
            ELSE "(" \o Join([i \in 1..Len(ValOf(v)) |-> Repr(ValOf(v)[i])], ", ") \o ")"
      [] TypeOf(v) = "dict" ->
            "{" \o Join([i \in 1..Len(ValOf(v)) |->
                           Repr(PyStr(ValOf(v)[i][1])) \o ": " \o Repr(ValOf(v)[i][2])], ", ")
                \o "}"
Repr(v) == IF TypeOf(v) = "str" THEN "'" \o ValOf(v) \o "'" ELSE Str(v)

(***************************************************************************)
(* src/src/utils/history.py                                                *)
(***************************************************************************)
\* Whether `for ... in enumerate(x)` can start: int, bool and None have no
\* __iter__.
Iterable(v) == TypeOf(v) \in {"list", "tuple", "dict", "str"}

\* The items a for loop over x visits: the elements of a list or tuple, the
\* keys of a dict, the characters of a str (a str payload of the model has
\* one character, which is the str itself).
Items(v) ==
    CASE TypeOf(v) \in {"list", "tuple"} -> ValOf(v)
      [] TypeOf(v) = "dict" -> [i \in 1..Len(ValOf(v)) |-> PyStr(ValOf(v)[i][1])]
      [] TypeOf(v) = "str" -> <<v>>

\* [a, b], the pair appended without str()
Turn_unconverted(a, b) == PyList(<<a, b>>)

\* [repr(a), repr(b)]
Turn_quoted(a, b) == PyList(<<PyStr(Repr(a)), PyStr(Repr(b))>>)

\* [str(a), str(b)]
Turn(a, b) == PyList(<<PyStr(Str(a)), PyStr(Str(b))>>)

\* the list/tuple branch with str(None) for the missing second element
normalize_sequence_none_for_missing(item) ==
    IF PyLen(item) = 2 THEN PyList(<<Turn(ValOf(item)[1], ValOf(item)[2])>>)
    ELSE IF PyLen(item) = 1 THEN PyList(<<Turn(ValOf(item)[1], PyNone)>>)
    ELSE IF PyLen(item) = 0 THEN Raise("IndexError")
    ELSE PyList(<<Turn(ValOf(item)[1],
                       PyStr(Join([i \in 1..(PyLen(item) - 1) |-> Str(ValOf(item)[i + 1])],
                                  " ")))>>)

\* the list/tuple branch keeping only the second element of a long item
normalize_sequence_second_only(item) ==
    IF PyLen(item) = 1 THEN PyList(<<Turn(ValOf(item)[1], PyStr(""))>>)
    ELSE IF PyLen(item) = 0 THEN Raise("IndexError")
    ELSE PyList(<<Turn(ValOf(item)[1], ValOf(item)[2])>>)

\* history.py:31-41, the list/tuple branch
normalize_sequence(item) ==
    IF PyLen(item) = 2 THEN PyList(<<Turn(ValOf(item)[1], ValOf(item)[2])>>)
    ELSE IF PyLen(item) = 1 THEN PyList(<<Turn(ValOf(item)[1], PyStr(""))>>)
    ELSE IF PyLen(item) = 0 THEN Raise("IndexError")   \* item[0] of an empty list
    ELSE PyList(<<Turn(ValOf(item)[1],
                       PyStr(Join([i \in 1..(PyLen(item) - 1) |-> Str(ValOf(item)[i + 1])],
                                  " ")))>>)

\* history.py:48-52, the user/bot branch
normalize_user_bot(item) ==
    PyList(<<Turn(Get(item, "user", PyStr("")), Get(item, "bot", PyStr("")))>>)

\* the role/content branch testing for "assistant" instead of "user"
normalize_role_content_by_assistant(item) ==
    LET role == Get(item, "role", PyNone)
        content == Get(item, "content", PyStr(""))
    IN  IF role = PyStr("assistant")
        THEN PyList(<<Turn(PyStr(""), content)>>)
        ELSE PyList(<<Turn(content, PyStr(""))>>)

\* history.py:54-63, the role/content branch
normalize_role_content(item) ==
    LET role == Get(item, "role", PyNone)
        content == Get(item, "content", PyStr(""))
    IN  IF role = PyStr("user")
        THEN PyList(<<Turn(content, PyStr(""))>>)
        ELSE PyList(<<Turn(PyStr(""), content)>>)

\* history.py:74-75: x.get("content") if isinstance(x, dict) else str(x)
message_text(x) == IF IsDict(x) THEN Get(x, "content", PyNone) ELSE PyStr(Str(x))

\* the {"messages": [...]} branch looping over range(0, len(msgs) - 1, 2)
normalize_messages_full_pairs(item) ==
    LET msgs == ValOf(Get(item, "messages", PyNone))
    IN  PyList([k \in 1..(Len(msgs) \div 2) |->
                  Turn(message_text(msgs[2 * k - 1]), message_text(msgs[2 * k]))])

\* history.py:68-77, the {"messages": [...]} branch: range(0, len(msgs), 2)
normalize_messages(item) ==
    LET msgs == ValOf(Get(item, "messages", PyNone))
        n == Len(msgs)
    IN  PyList([k \in 1..((n + 1) \div 2) |->
                  LET left == msgs[2 * k - 1]
                      right == IF 2 * k <= n THEN msgs[2 * k] ELSE PyStr("")
                  IN  Turn(message_text(left), message_text(right))])

\* the loop body testing role/content and messages before user/bot
normalize_item_user_bot_last(item) ==
    IF IsListOrTuple(item) THEN normalize_sequence(item)
    ELSE IF IsDict(item) THEN
        IF HasKey(item, "role") /\ HasKey(item, "content")
            THEN normalize_role_content(item)
        ELSE IF HasKey(item, "messages") /\ IsListOrTuple(Get(item, "messages", PyNone))
            THEN normalize_messages(item)
        ELSE IF HasKey(item, "user") \/ HasKey(item, "bot") THEN normalize_user_bot(item)
        ELSE PyList(<<Turn(item, PyStr(""))>>)
    ELSE PyList(<<Turn(item, PyStr(""))>>)

\* the loop body dropping a dict of no known shape
normalize_item_unknown_dropped(item) ==
    IF IsListOrTuple(item) THEN normalize_sequence(item)
    ELSE IF IsDict(item) THEN
        IF HasKey(item, "user") \/ HasKey(item, "bot") THEN normalize_user_bot(item)
        ELSE IF HasKey(item, "role") /\ HasKey(item, "content")
            THEN normalize_role_content(item)
        ELSE IF HasKey(item, "messages") /\ IsListOrTuple(Get(item, "messages", PyNone))
            THEN normalize_messages(item)
        ELSE PyList(<<>>)
    ELSE PyList(<<Turn(item, PyStr(""))>>)

\* history.py:29-84, the body of the loop for one item: the Turns it
\* appends, or the exception it raises
normalize_item(item) ==
    IF IsListOrTuple(item) THEN normalize_sequence(item)
    ELSE IF IsDict(item) THEN
        IF HasKey(item, "user") \/ HasKey(item, "bot") THEN normalize_user_bot(item)
        ELSE IF HasKey(item, "role") /\ HasKey(item, "content")
            THEN normalize_role_content(item)
        ELSE IF HasKey(item, "messages") /\ IsListOrTuple(Get(item, "messages", PyNone))
            THEN normalize_messages(item)
        ELSE PyList(<<Turn(item, PyStr(""))>>)
    ELSE PyList(<<Turn(item, PyStr(""))>>)

\* history.py:29, the loop: items in order, each appending to `normalized`
RECURSIVE normalize_loop(_, _)
normalize_loop(items, acc) ==
    IF Len(items) = 0 THEN PyList(acc)
    ELSE LET r == normalize_item(Head(items))
         IN  IF IsRaise(r) THEN r ELSE normalize_loop(Tail(items), acc \o ValOf(r))

\* normalize_history without the `if not history` return
normalize_history_unguarded(h) ==
    IF ~Iterable(h) THEN Raise("TypeError")
    ELSE normalize_loop(Items(h), <<>>)

\* history.py:12-86
normalize_history(h) ==
    IF ~Truthy(h) THEN PyList(<<>>)
    ELSE IF ~Iterable(h) THEN Raise("TypeError")
    ELSE normalize_loop(Items(h), <<>>)

(***************************************************************************)
(* src/src/ui.py                                                           *)
(***************************************************************************)
\* {"role": role, "content": content}
Message(role, content) == PyDict(<< <<"role", PyStr(role)>>, <<"content", content>> >>)

\* the Turn-to-Message loop without the `if user_msg:` / `if assistant_msg:` tests
RECURSIVE turns_to_messages_unfiltered(_)
turns_to_messages_unfiltered(turns) ==
    IF Len(turns) = 0 THEN <<>>
    ELSE <<Message("user", ValOf(Head(turns))[1]), Message("assistant", ValOf(Head(turns))[2])>>
             \o turns_to_messages_unfiltered(Tail(turns))

\* the Turn-to-Message loop emitting the assistant message before the user's
RECURSIVE turns_to_messages_assistant_first(_)
turns_to_messages_assistant_first(turns) ==
    IF Len(turns) = 0 THEN <<>>
    ELSE LET user_msg == ValOf(Head(turns))[1]
             assistant_msg == ValOf(Head(turns))[2]
         IN  (IF Truthy(assistant_msg) THEN <<Message("assistant", assistant_msg)>>
                 ELSE <<>>)
             \o (IF Truthy(user_msg) THEN <<Message("user", user_msg)>> ELSE <<>>)
             \o turns_to_messages_assistant_first(Tail(turns))

\* ui.py:46-52: the Turn-to-Message loop over the normalized pairs
RECURSIVE turns_to_messages(_)
turns_to_messages(turns) ==
    IF Len(turns) = 0 THEN <<>>
    ELSE LET user_msg == ValOf(Head(turns))[1]
             assistant_msg == ValOf(Head(turns))[2]
         IN  (IF Truthy(user_msg) THEN <<Message("user", user_msg)>> ELSE <<>>)
             \o (IF Truthy(assistant_msg) THEN <<Message("assistant", assistant_msg)>>
                 ELSE <<>>)
             \o turns_to_messages(Tail(turns))

\* ui.py:18-52
to_internal_history(h) ==
    IF ~Truthy(h) THEN PyList(<<>>)
    ELSE IF ~IsListOrTuple(h) \/ PyLen(h) = 0 THEN PyList(<<>>)
    ELSE IF IsDict(ValOf(h)[1]) /\ HasKey(ValOf(h)[1], "role") THEN PyList(ValOf(h))
    ELSE LET n == normalize_history(h)
         IN  IF IsRaise(n) THEN n ELSE PyList(turns_to_messages(ValOf(n)))

\* the collecting loop written as an `if`: it takes one message, not the run
collect_run_single(h, i, role, acc) ==
    IF i < Len(h) THEN
        IF ~IsDict(h[i + 1]) THEN Raise("AttributeError")
        ELSE IF Get(h[i + 1], "role", PyNone) = PyStr(role) THEN
            LET content == Get(h[i + 1], "content", PyStr(""))
            IN  IF ~IsStr(content) THEN Raise("TypeError")
                ELSE <<"run", [i |-> i + 1, content |-> acc \o ValOf(content)]>>
        ELSE <<"run", [i |-> i, content |-> acc]>>
    ELSE <<"run", [i |-> i, content |-> acc]>>

\* ui.py:77-81 and 84-88: one `while` collecting the consecutive messages of
\* `role` from index i (0-based) on; `acc` is the content gathered so far.
\* history[i].get raises on an element that is no dict, and str += x raises
\* on a content that is no str.
RECURSIVE collect_run(_, _, _, _)
collect_run(h, i, role, acc) ==
    IF i < Len(h) THEN
        IF ~IsDict(h[i + 1]) THEN Raise("AttributeError")
        ELSE IF Get(h[i + 1], "role", PyNone) = PyStr(role) THEN
            LET content == Get(h[i + 1], "content", PyStr(""))
                sep == IF acc # "" THEN acc \o "\n" ELSE acc
            IN  IF ~IsStr(content) THEN Raise("TypeError")
                ELSE collect_run(h, i + 1, role, sep \o ValOf(content))
        ELSE <<"run", [i |-> i, content |-> acc]>>
    ELSE <<"run", [i |-> i, content |-> acc]>>

\* one iteration of the outer `while` without its last step: a message of an
\* unexpected role is left where it is
scan_step_stuck(h, i) ==
    LET u == collect_run(h, i, "user", "")
    IN  IF IsRaise(u) THEN u
        ELSE LET a == collect_run(h, ValOf(u).i, "assistant", "")
             IN  IF IsRaise(a) THEN a
                 ELSE LET user_content == ValOf(u).content
                          assistant_content == ValOf(a).content
                      IN  <<"step",
                            [emit |-> IF user_content # "" \/ assistant_content # ""
                                      THEN <<PyTuple(<<PyStr(user_content),
                                                       PyStr(assistant_content)>>)>>
                                      ELSE <<>>,
                             i |-> ValOf(a).i]>>

\* one iteration of the outer `while` whose last step skips two messages
scan_step_skip_two(h, i) ==
    LET u == collect_run(h, i, "user", "")
    IN  IF IsRaise(u) THEN u
        ELSE LET a == collect_run(h, ValOf(u).i, "assistant", "")
             IN  IF IsRaise(a) THEN a
                 ELSE LET user_content == ValOf(u).content
                          assistant_content == ValOf(a).content
                          j == ValOf(a).i
                      IN  <<"step",
                            [emit |-> IF user_content # "" \/ assistant_content # ""
                                      THEN <<PyTuple(<<PyStr(user_content),
                                                       PyStr(assistant_content)>>)>>
                                      ELSE <<>>,
                             i |-> IF /\ j < Len(h)
                                      /\ Get(h[j + 1], "role", PyNone)
                                             \notin {PyStr("user"), PyStr("assistant")}
                                   THEN j + 2 ELSE j]>>

\* ui.py:73-96: one iteration of the outer `while`, started at index i: the
\* index it ends at and the pairs (none or one) it appends to `legacy`
scan_step(h, i) ==
    LET u == collect_run(h, i, "user", "")
    IN  IF IsRaise(u) THEN u
        ELSE LET a == collect_run(h, ValOf(u).i, "assistant", "")
             IN  IF IsRaise(a) THEN a
                 ELSE LET user_content == ValOf(u).content
                          assistant_content == ValOf(a).content
                          j == ValOf(a).i
                      IN  <<"step",
                            [emit |-> IF user_content # "" \/ assistant_content # ""
                                      THEN <<PyTuple(<<PyStr(user_content),
                                                       PyStr(assistant_content)>>)>>
                                      ELSE <<>>,
                             i |-> IF /\ j < Len(h)
                                      /\ Get(h[j + 1], "role", PyNone)
                                             \notin {PyStr("user"), PyStr("assistant")}
                                   THEN j + 1 ELSE j]>>

\* ui.py:70-98: the outer `while i < len(history)`
RECURSIVE legacy_scan(_, _, _)
legacy_scan(h, i, legacy) ==
    IF i < Len(h) THEN
        LET s == scan_step(h, i)
        IN  IF IsRaise(s) THEN s ELSE legacy_scan(h, ValOf(s).i, legacy \o ValOf(s).emit)
    ELSE PyList(legacy)

\* to_gradio_history without the version test: always the legacy pairs
to_gradio_history_always_legacy(h) ==
    IF ~Truthy(h) THEN PyList(<<>>)
    ELSE IF IsListOrTuple(h) THEN legacy_scan(ValOf(h), 0, <<>>)
    ELSE Raise("TypeError")

\* ui.py:55-98.  Below version 6 a payload that is no list fails in the scan:
\* len() of an int or bool, history[0] of a dict, .get of a character.
to_gradio_history(h) ==
    IF ~Truthy(h) THEN PyList(<<>>)
    ELSE IF GRADIO_V6 THEN h
    ELSE IF IsListOrTuple(h) THEN legacy_scan(ValOf(h), 0, <<>>)
    ELSE IF TypeOf(h) \in {"int", "bool"} THEN Raise("TypeError")
    ELSE IF TypeOf(h) = "dict" THEN Raise("KeyError")
    ELSE Raise("AttributeError")

(***************************************************************************)
(* Payloads                                                                *)
(***************************************************************************)
MaxMessages == 4   \* longest flat list of role/content messages
MaxLen == 3        \* longest list of mixed-shape elements
MaxItems == 3      \* longest list or tuple element
MaxInner == 3      \* longest list under a "messages" key

\* All sequences over S of length 0..n
SeqUpTo(S, n) == UNION {[1..k -> S] : k \in 0..n}

Texts == {"", "a", "b"}
Scalars == {PyNone, PyStr(""), PyStr("a"), PyInt(0), PyInt(7), PyBool(TRUE)}

\* role/content messages with str content, as the widget of version 6 sends
Messages ==
    {Message(r, PyStr(c)) : r \in {"user", "assistant"}, c \in Texts}
        \cup {Message("system", PyStr("a"))}

\* list and tuple elements of every length up to MaxItems
ItemValues == {PyStr("a"), PyNone, PyInt(7), PyInt(123), PyBool(TRUE), PyBool(FALSE)}
ListElements ==
    {PyList(x) : x \in SeqUpTo(ItemValues, MaxItems)}
        \cup {PyTuple(x) : x \in SeqUpTo(ItemValues, MaxItems)}
        \cup {PyList(<<PyStr("a"), PyStr("b"), PyStr("a"), PyStr(""), PyInt(7)>>)}

\* lists and tuples of length 1 or 2, for histories made of them alone
ShortElements ==
    {PyList(<<PyInt(123), PyBool(TRUE)>>), PyTuple(<<PyNone>>),
     PyList(<<PyStr("a")>>), PyTuple(<<PyBool(FALSE), PyStr("a")>>)}

\* dicts with a "user" key, a "bot" key or both, alone or beside other keys
UserBotElements ==
    {PyDict(<< <<"user", u>>, <<"bot", b>> >>) : u \in {PyStr("a"), PyStr(""), PyNone},
                                                 b \in {PyStr("b"), PyInt(7)}}
        \cup {PyDict(<< <<"user", u>> >>) : u \in {PyStr("a"), PyStr("")}}
        \cup {PyDict(<< <<"bot", b>> >>) : b \in {PyStr("b"), PyNone}}
        \cup {PyDict(<< <<"role", PyStr("assistant")>>, <<"content", PyStr("b")>>,
                        <<"user", PyStr("a")>> >>),
              PyDict(<< <<"messages", PyList(<<PyStr("b")>>)>>, <<"bot", PyStr("a")>> >>)}

\* role/content dicts whose role or content is no str, or that lack one key
OddMessages ==
    {PyDict(<< <<"role", r>>, <<"content", c>> >>) :
         r \in {PyStr("user"), PyNone}, c \in {PyNone, PyInt(7), PyList(<<PyStr("a")>>)}}
        \cup {PyDict(<< <<"role", PyStr("user")>> >>),
              PyDict(<< <<"role", PyStr("assistant")>> >>),
              PyDict(<< <<"content", PyStr("a")>> >>)}

\* {"messages": [...]} wrappers
InnerMessages ==
    {Message("user", PyStr("a")), Message("assistant", PyStr("b")),
     PyDict(<< <<"role", PyStr("user")>> >>), PyStr("x")}
WrapperElements ==
    {PyDict(<< <<"messages", PyList(m)>> >>) : m \in SeqUpTo(InnerMessages, MaxInner)}
        \cup {PyDict(<< <<"messages", PyTuple(<<Message("user", PyInt(7))>>)>> >>),
              PyDict(<< <<"messages", PyStr("a")>> >>),
              PyDict(<< <<"messages", PyNone>>, <<"role", PyStr("user")>> >>)}

UnknownElements == {PyDict(<< <<"unknown_key", PyStr("value")>> >>), PyDict(<<>>)}

Elements ==
    Scalars \cup Messages \cup ListElements \cup UserBotElements \cup OddMessages
        \cup WrapperElements \cup UnknownElements

\* one or two elements of each shape, for lists that mix shapes
CoreElements ==
    {PyStr("a"), PyStr(""), PyNone,
     PyList(<<PyStr("a"), PyStr("b")>>), PyTuple(<<PyInt(7)>>), PyList(<<>>),
     PyDict(<< <<"user", PyStr("a")>>, <<"bot", PyStr("")>> >>),
     Message("user", PyStr("a")), Message("assistant", PyStr("b")),
     PyDict(<< <<"messages", PyList(<<Message("user", PyStr("a")), PyStr("x"),
                                      PyDict(<< <<"role", PyStr("user")>> >>)>>)>> >>),
     PyDict(<< <<"unknown_key", PyStr("value")>> >>)}

\* payloads that are no list: None, scalars, a dict, a tuple
BarePayloads ==
    Scalars \cup {PyStr("b"), PyBool(FALSE), PyDict(<<>>), PyTuple(<<>>)}
        \cup {PyDict(<< <<"messages", PyList(<<Message("user", PyStr("a"))>>)>> >>),
              PyDict(<< <<"role", PyStr("user")>>, <<"content", PyStr("a")>> >>)}
        \cup {PyTuple(<<e>>) : e \in CoreElements}

Histories ==
    BarePayloads
        \cup {PyList(<<e>>) : e \in Elements}
        \cup {PyList(x) : x \in SeqUpTo(CoreElements, MaxLen)}
        \cup {PyList(x) : x \in SeqUpTo(Messages, MaxMessages)}
        \cup {PyList(x) : x \in SeqUpTo(ShortElements, MaxLen)}

(***************************************************************************)
(* The calls                                                               *)
(***************************************************************************)
\* LinguaTravelUI and OllamaService as constructed, no handler running
NoChat ==
    /\ chatbot = PyList(<<>>)
    /\ asked = ""
    /\ response = ""
    /\ updates = <<>>
    /\ chunks = <<>>
    /\ conversation_history = <<>>
    /\ full_response = ""
    /\ gen = "closed"
    /\ steps = 0
    /\ consumed = TRUE

\* no legacy scan under way
NoScan ==
    /\ index = 0
    /\ legacy_pairs = <<>>
    /\ visits = <<>>

Init ==
    /\ history \in Histories
    /\ GRADIO_V6 \in BOOLEAN
    /\ pc = "start"
    /\ normalized = NotCalled
    /\ internal = NotCalled
    /\ messages = NotCalled
    /\ displayed = NotCalled
    /\ NoChat
    /\ NoScan

\* normalize_history(history)
CallNormalizeHistory ==
    /\ pc = "start"
    /\ normalized' = normalize_history(history)
    /\ pc' = "normalized"
    /\ UNCHANGED <<scanVars, history, GRADIO_V6, internal, messages, displayed, chatVars>>

\* normalize_history(normalize_history(history)): the result fed back in
CallNormalizeOnResult ==
    /\ pc = "normalized"
    /\ ~IsRaise(normalized)
    /\ normalized' = normalize_history(normalized)
    /\ pc' = "renormalized"
    /\ UNCHANGED <<scanVars, history, GRADIO_V6, internal, messages, displayed, chatVars>>

\* normalize_history(history) a second time on the same payload
CallNormalizeHistoryAgain ==
    /\ pc = "normalized"
    /\ normalized' = normalize_history(history)
    /\ pc' = "repeated"
    /\ UNCHANGED <<scanVars, history, GRADIO_V6, internal, messages, displayed, chatVars>>

\* to_internal_history(history), the first statement of every handler
CallToInternalHistory ==
    /\ pc = "start"
    /\ internal' = to_internal_history(history)
    /\ pc' = "internal"
    /\ UNCHANGED <<scanVars, history, GRADIO_V6, normalized, messages, displayed, chatVars>>

\* to_gradio_history(history) on the payload itself
CallToGradioHistory ==
    /\ pc = "start"
    /\ messages' = history
    /\ displayed' = to_gradio_history(history)
    /\ pc' = "displayed"
    /\ UNCHANGED <<scanVars, history, GRADIO_V6, normalized, internal, chatVars>>

\* ui.py:117-120: a handler that has nothing to add converts the internal
\* history back for the widget
ReturnUnchanged ==
    /\ pc = "internal"
    /\ ~IsRaise(internal)
    /\ messages' = internal
    /\ displayed' = to_gradio_history(internal)
    /\ pc' = "returned"
    /\ UNCHANGED <<scanVars, history, GRADIO_V6, normalized, internal, chatVars>>

Next ==
    \/ CallNormalizeHistory
    \/ CallNormalizeOnResult
    \/ CallNormalizeHistoryAgain
    \/ CallToInternalHistory
    \/ CallToGradioHistory
    \/ ReturnUnchanged

Spec == Init /\ [][Next]_vars

(***************************************************************************)
(* Properties of normalize_history                                         *)
(***************************************************************************)
\* the items of a list or tuple payload, as normalize_history visits them
Visited == IF IsListOrTuple(history) THEN ValOf(history) ELSE <<>>

\* a value is a Turn: a list of exactly two str
IsTurn(t) == TypeOf(t) = "list" /\ Len(ValOf(t)) = 2 /\ IsStr(ValOf(t)[1]) /\ IsStr(ValOf(t)[2])

\* C1: normalize_history returns a list, without raising, for every payload:
\* None, an empty sequence, lists and tuples of any length (0 included),
\* dicts with any keys, scalars, and a payload that is itself a scalar or a
\* dict.
C1_NormalizeIsTotal == pc = "normalized" => TypeOf(normalized) = "list"

\* C2: whenever normalize_history returns, every element of the result is a
\* Turn of exactly two fields, both of them str.
C2_TurnsAreStringPairs ==
    (pc = "normalized" /\ ~IsRaise(normalized)) =>
        /\ TypeOf(normalized) = "list"
        /\ \A k \in 1..Len(ValOf(normalized)) : IsTurn(ValOf(normalized)[k])

\* an inner message of a {"messages": [...]} wrapper that is no dict or has
\* no "content" key
LacksContent(m) == ~IsDict(m) \/ ~HasKey(m, "content")
IsWrapper(e) ==
    /\ IsDict(e)
    /\ ~HasKey(e, "user") /\ ~HasKey(e, "bot")
    /\ ~(HasKey(e, "role") /\ HasKey(e, "content"))
    /\ HasKey(e, "messages") /\ IsListOrTuple(Get(e, "messages", PyNone))
InnerOf(e) == ValOf(Get(e, "messages", PyNone))

C2_Witness ==
    /\ pc = "normalized" /\ ~IsRaise(normalized)
    /\ \E i \in 1..Len(Visited) :
          /\ IsWrapper(Visited[i])
          /\ \E j \in 1..Len(InnerOf(Visited[i])) :
                /\ IsDict(InnerOf(Visited[i])[j])
                /\ LacksContent(InnerOf(Visited[i])[j])
    /\ \E i \in 1..Len(Visited) : TypeOf(Visited[i]) = "NoneType"
    /\ Len(ValOf(normalized)) >= 3

\* C3: for every way of cutting a list payload into A ++ B, the three calls
\* return and normalize_history(A ++ B) = normalize_history(A) ++
\* normalize_history(B).
C3_Concatenation ==
    (pc = "normalized" /\ TypeOf(history) = "list") =>
        \A k \in 0..Len(ValOf(history)) :
            LET A == PyList(SubSeq(ValOf(history), 1, k))
                B == PyList(SubSeq(ValOf(history), k + 1, Len(ValOf(history))))
            IN  /\ ~IsRaise(normalized)
                /\ ~IsRaise(normalize_history(A))
                /\ ~IsRaise(normalize_history(B))
                /\ ValOf(normalized) = ValOf(normalize_history(A)) \o ValOf(normalize_history(B))

\* a dict with both a "role" and a "content" key and neither "user" nor "bot"
IsRoleContent(e) ==
    /\ IsDict(e)
    /\ HasKey(e, "role") /\ HasKey(e, "content")
    /\ ~HasKey(e, "user") /\ ~HasKey(e, "bot")

\* C4: a list of role/content dicts gives exactly one Turn per message:
\* [str(content), ""] for role "user", ["", str(content)] for any other role.
C4_OneTurnPerMessage ==
    (/\ pc = "normalized"
     /\ TypeOf(history) = "list"
     /\ \A i \in 1..Len(ValOf(history)) : IsRoleContent(ValOf(history)[i])) =>
        /\ TypeOf(normalized) = "list"
        /\ Len(ValOf(normalized)) = Len(ValOf(history))
        /\ \A i \in 1..Len(ValOf(history)) :
              LET m == ValOf(history)[i]
                  text == PyStr(Str(Get(m, "content", PyNone)))
              IN  ValOf(normalized)[i] =
                      IF Get(m, "role", PyNone) = PyStr("user")
                      THEN PyList(<<text, PyStr("")>>)
                      ELSE PyList(<<PyStr(""), text>>)

C4_Witness ==
    /\ pc = "normalized"
    /\ history = PyList(<<Message("user", PyStr("a")), Message("assistant", PyStr("b")),
                          Message("user", PyStr("b")), Message("assistant", PyStr("a"))>>)
    /\ Len(ValOf(normalized)) = 4

\* C5: a {"messages": [...]} wrapper of n role/content dicts gives ceil(n/2)
\* Turns; Turn k holds the contents of messages 2k and 2k+1 (counted from 0),
\* in their string form, and the last Turn of an odd n holds the last content
\* and ""; the roles take no part.
C5_WrapperPairsByPosition ==
    (/\ pc = "normalized"
     /\ Len(Visited) = 1
     /\ IsWrapper(Visited[1])
     /\ \A j \in 1..Len(InnerOf(Visited[1])) : IsRoleContent(InnerOf(Visited[1])[j])) =>
        LET msgs == InnerOf(Visited[1])
            n == Len(msgs)
            text(j) == PyStr(Str(Get(msgs[j], "content", PyNone)))
            turns == IF n % 2 = 0 THEN n \div 2 ELSE (n \div 2) + 1
        IN  /\ TypeOf(normalized) = "list"
            /\ Len(ValOf(normalized)) = turns
            /\ \A k \in 1..turns :
                  ValOf(normalized)[k] =
                      PyList(<<text(2 * k - 1),
                               IF 2 * k <= n THEN text(2 * k) ELSE PyStr("")>>)

C5_Witness ==
    /\ pc = "normalized"
    /\ Len(Visited) = 1 /\ IsWrapper(Visited[1])
    /\ Len(InnerOf(Visited[1])) = 3
    /\ \A j \in 1..3 : IsRoleContent(InnerOf(Visited[1])[j])
    /\ Get(InnerOf(Visited[1])[1], "role", PyNone) = PyStr("assistant")
    /\ Get(InnerOf(Visited[1])[2], "role", PyNone) = PyStr("assistant")
    /\ Len(ValOf(normalized)) = 2

(***************************************************************************)
(* Properties of to_gradio_history and to_internal_history                 *)
(***************************************************************************)
\* to_gradio_history has run on `messages`
Converted == pc \in {"displayed", "returned"}

RoleOf(m) == Get(m, "role", PyNone)
ContentOf(m) == Get(m, "content", PyStr(""))

\* a dict with role "user" or "assistant" and a str content
IsChatMessage(m) ==
    /\ IsDict(m)
    /\ RoleOf(m) \in {PyStr("user"), PyStr("assistant")}
    /\ HasKey(m, "content") /\ IsStr(ContentOf(m))

\* The run pairs of a list h of user/assistant messages, read off the list:
\* a pair starts at the first message and at every user message that follows
\* an assistant message, and runs up to the next start.
GroupStarts(h) ==
    {j \in 1..Len(h) :
        j = 1 \/ (RoleOf(h[j]) = PyStr("user") /\ RoleOf(h[j - 1]) = PyStr("assistant"))}
GroupEnd(h, s) ==
    CHOOSE e \in s..Len(h) :
        /\ \A j \in (s + 1)..e : j \notin GroupStarts(h)
        /\ e = Len(h) \/ (e + 1) \in GroupStarts(h)
GroupRank(h, s) == Cardinality({t \in GroupStarts(h) : t <= s})

\* the contents of the messages of `role` among h[s..e], in order, with one
\* newline between neighbours
RunText(h, s, e, role) ==
    LET run == SelectSeq(SubSeq(h, s, e), LAMBDA m : RoleOf(m) = PyStr(role))
    IN  Join([k \in 1..Len(run) |-> ValOf(ContentOf(run[k]))], "\n")

RunPair(h, s) ==
    PyTuple(<<PyStr(RunText(h, s, GroupEnd(h, s), "user")),
              PyStr(RunText(h, s, GroupEnd(h, s), "assistant"))>>)

\* C6: below version 6, a list of user/assistant messages with non-empty
\* contents gives exactly one pair per maximal user run taken with the
\* assistant run that follows it; a missing run gives an empty side.
C6_OnePairPerRunPair ==
    (/\ Converted /\ ~GRADIO_V6
     /\ TypeOf(messages) = "list"
     /\ \A j \in 1..Len(ValOf(messages)) :
           IsChatMessage(ValOf(messages)[j]) /\ ValOf(ContentOf(ValOf(messages)[j])) # "") =>
        /\ TypeOf(displayed) = "list"
        /\ Len(ValOf(displayed)) = Cardinality(GroupStarts(ValOf(messages)))
        /\ \A s \in GroupStarts(ValOf(messages)) :
              ValOf(displayed)[GroupRank(ValOf(messages), s)] = RunPair(ValOf(messages), s)

C6_Witness ==
    /\ Converted /\ ~GRADIO_V6
    /\ messages = PyList(<<Message("user", PyStr("a")), Message("user", PyStr("b")),
                           Message("assistant", PyStr("a")), Message("assistant", PyStr("b"))>>)
    /\ displayed = PyList(<<PyTuple(<<PyStr("a\nb"), PyStr("a\nb")>>)>>)

\* C7: below version 6, each side of an emitted pair is the contents of its
\* run joined with exactly one newline between neighbours, empty contents
\* included.  (Stated for the lists in which every run pair emitted a pair.)
C7_NewlineBetweenNeighbours ==
    (/\ Converted /\ ~GRADIO_V6
     /\ TypeOf(messages) = "list"
     /\ \A j \in 1..Len(ValOf(messages)) : IsChatMessage(ValOf(messages)[j])
     /\ TypeOf(displayed) = "list"
     /\ Len(ValOf(displayed)) = Cardinality(GroupStarts(ValOf(messages)))) =>
        \A s \in GroupStarts(ValOf(messages)) :
            ValOf(displayed)[GroupRank(ValOf(messages), s)] = RunPair(ValOf(messages), s)

\* a dict whose content (when it has one) is a str: the scan reads it
\* without raising
IsReadable(m) == IsDict(m) /\ IsStr(ContentOf(m))
Skipped(m) == RoleOf(m) \notin {PyStr("user"), PyStr("assistant")}

\* C8: below version 6, a message whose role is neither "user" nor
\* "assistant" takes exactly one scan position and adds nothing: an outer
\* iteration started on it ends one position further with no pair, and the
\* pairs of the whole list are the pairs of the messages before it followed
\* by the pairs of the messages after it.
C8_OtherRoleSkipped ==
    (/\ Converted /\ ~GRADIO_V6
     /\ TypeOf(messages) = "list"
     /\ \A j \in 1..Len(ValOf(messages)) : IsReadable(ValOf(messages)[j])) =>
        /\ TypeOf(displayed) = "list"
        /\ \A j \in 1..Len(ValOf(messages)) :
              Skipped(ValOf(messages)[j]) =>
                  /\ ValOf(scan_step(ValOf(messages), j - 1)).i = j
                  /\ ValOf(scan_step(ValOf(messages), j - 1)).emit = <<>>
                  /\ ValOf(displayed) =
                        ValOf(legacy_scan(SubSeq(ValOf(messages), 1, j - 1), 0, <<>>))
                            \o ValOf(legacy_scan(SubSeq(ValOf(messages), j + 1,
                                                         Len(ValOf(messages))), 0, <<>>))

C8_Witness ==
    /\ Converted /\ ~GRADIO_V6
    /\ messages = PyList(<<Message("user", PyStr("b")), Message("system", PyStr("a")),
                           Message("assistant", PyStr("b")), Message("user", PyStr("b"))>>)
    /\ displayed = PyList(<<PyTuple(<<PyStr("b"), PyStr("")>>),
                            PyTuple(<<PyStr(""), PyStr("b")>>),
                            PyTuple(<<PyStr("b"), PyStr("")>>)>>)

\* the payload takes the normalizing path of to_internal_history (ui.py:43)
TakesNormalizingPath ==
    /\ IsListOrTuple(history) /\ PyLen(history) > 0
    /\ ~(IsDict(ValOf(history)[1]) /\ HasKey(ValOf(history)[1], "role"))

\* The messages of a sequence of Turns, read off the Turns: slot 2k-1 holds
\* the user message of Turn k and slot 2k its assistant message; the slots
\* with an empty content are left out.
TurnSlots(turns) ==
    [j \in 1..(2 * Len(turns)) |->
        IF j % 2 = 1 THEN Message("user", ValOf(turns[(j + 1) \div 2])[1])
        ELSE Message("assistant", ValOf(turns[j \div 2])[2])]
NonEmptyContent(m) == ContentOf(m) # PyStr("")

\* C9: on the normalizing path, to_internal_history returns, in Turn order, a
\* user message for every non-empty user_text followed by an assistant
\* message for every non-empty assistant_text: no content is empty, every
\* role is "user" or "assistant", and there are at most two messages a Turn.
C9_TurnsToMessages ==
    (/\ pc \in {"internal", "returned"}
     /\ TakesNormalizingPath
     /\ ~IsRaise(normalize_history(history))) =>
        LET turns == ValOf(normalize_history(history))
        IN  /\ TypeOf(internal) = "list"
            /\ ValOf(internal) = SelectSeq(TurnSlots(turns), NonEmptyContent)
            /\ Len(ValOf(internal)) <= 2 * Len(turns)
            /\ \A k \in 1..Len(ValOf(internal)) :
                  /\ IsChatMessage(ValOf(internal)[k])
                  /\ ValOf(ContentOf(ValOf(internal)[k])) # ""

C9_Witness ==
    /\ pc = "internal"
    /\ history = PyList(<<PyDict(<< <<"user", PyStr("a")>>, <<"bot", PyStr("")>> >>),
                          PyStr(""),
                          Message("assistant", PyStr("b"))>>)
    /\ internal = PyList(<<Message("user", PyStr("a")), Message("assistant", PyStr("b"))>>)

\* a legacy pair: a tuple of exactly two str
IsPair(p) == TypeOf(p) = "tuple" /\ Len(ValOf(p)) = 2 /\ IsStr(ValOf(p)[1]) /\ IsStr(ValOf(p)[2])

\* what to_gradio_history returns, by version flag and history: [] for an
\* empty or None history under either version, the history itself from
\* version 6 on, the pairs of the scan below it
ResultByVersion ==
    Converted =>
        /\ ~Truthy(messages) => displayed = PyList(<<>>)
        /\ (Truthy(messages) /\ GRADIO_V6) => displayed = messages
        /\ (Truthy(messages) /\ ~GRADIO_V6 /\ IsListOrTuple(messages)) =>
              /\ displayed = legacy_scan(ValOf(messages), 0, <<>>)
              /\ ~IsRaise(displayed) =>
                    /\ TypeOf(displayed) = "list"
                    /\ \A k \in 1..Len(ValOf(displayed)) : IsPair(ValOf(displayed)[k])
        /\ messages = IF pc = "returned" THEN internal ELSE history

\* the call leaves its argument and the version flag as they were
ArgumentUntouched ==
    [][Converted' => /\ history' = history
                     /\ internal' = internal
                     /\ GRADIO_V6' = GRADIO_V6]_vars

\* C10: to_gradio_history is a pure function of the version flag and the
\* history: from version 6 on it returns the message list unchanged, below
\* it the legacy pairs of the run-pairing scan, and [] for an empty or None
\* history under either version; no call changes what a later call returns.
C10_PureSelector == []ResultByVersion /\ ArgumentUntouched

C10_Witness ==
    /\ Converted /\ GRADIO_V6
    /\ messages = PyList(<<Message("user", PyStr("a")), Message("user", PyStr("b")),
                           Message("assistant", PyStr("a"))>>)
    /\ displayed = messages

(***************************************************************************)
(* C11 .. C17: the round trip and the element shapes                       *)
(***************************************************************************)

\* C11: for every incoming history, to_internal_history followed by
\* to_gradio_history returns a value without raising, in legacy-pair mode
\* and in message-list mode.
C11_RoundTripIsTotal ==
    /\ pc = "internal" => ~IsRaise(internal)
    /\ pc = "returned" => ~IsRaise(displayed)

\* the elements of a history that is a list or tuple
IsScalar(v) == TypeOf(v) \in {"str", "int", "bool", "NoneType"}
IsShortSequence(e) ==
    /\ IsListOrTuple(e) /\ PyLen(e) \in {1, 2}
    /\ \A k \in 1..PyLen(e) : IsScalar(ValOf(e)[k])

\* the string form the tests pin, scalar by scalar
PinnedForm(v) ==
    CASE v = PyInt(123) -> "123"
      [] v = PyInt(7) -> "7"
      [] v = PyInt(0) -> "0"
      [] v = PyNone -> "None"
      [] v = PyBool(TRUE) -> "True"
      [] v = PyBool(FALSE) -> "False"
      [] IsStr(v) -> ValOf(v)

\* C12: a history whose elements are all lists or tuples of length 1 or 2
\* normalizes to a list of the same length whose i-th Turn is
\* [str(first), str(second)], with "" as second field for length 1; the
\* string form is the pinned one (123 -> "123", None -> "None",
\* True -> "True", False -> "False").
C12_ShortSequences ==
    (/\ pc = "normalized"
     /\ IsListOrTuple(history)
     /\ \A i \in 1..Len(Visited) : IsShortSequence(Visited[i])) =>
        /\ TypeOf(normalized) = "list"
        /\ PyLen(normalized) = Len(Visited)
        /\ \A i \in 1..Len(Visited) :
              LET e == ValOf(Visited[i])
              IN  ValOf(normalized)[i] =
                      PyList(<<PyStr(PinnedForm(e[1])),
                               PyStr(IF Len(e) = 2 THEN PinnedForm(e[2]) ELSE "")>>)

C12_Witness ==
    /\ pc = "normalized"
    /\ history = PyList(<<PyList(<<PyInt(123), PyBool(TRUE)>>), PyTuple(<<PyNone>>),
                          PyTuple(<<PyBool(FALSE), PyStr("a")>>)>>)
    /\ normalized = PyList(<<PyList(<<PyStr("123"), PyStr("True")>>),
                             PyList(<<PyStr("None"), PyStr("")>>),
                             PyList(<<PyStr("False"), PyStr("a")>>)>>)

\* str of a scalar followed by the already joined rest, one space between
RECURSIVE SpaceSeparated(_)
SpaceSeparated(items) ==
    IF Len(items) = 1 THEN PinnedForm(items[1])
    ELSE PinnedForm(items[1]) \o " " \o SpaceSeparated(Tail(items))

IsLongSequence(e) ==
    /\ IsListOrTuple(e) /\ PyLen(e) > 2
    /\ \A k \in 1..PyLen(e) : IsScalar(ValOf(e)[k])

\* C13: a list or tuple element with more than 2 elements gives exactly one
\* Turn: user_text is the string form of the first element, assistant_text
\* the string forms of all remaining elements, in order, with exactly one
\* space between neighbours.
C13_LongSequences ==
    (/\ pc = "normalized"
     /\ TypeOf(history) = "list" /\ Len(Visited) = 1
     /\ IsLongSequence(Visited[1])) =>
        LET e == ValOf(Visited[1])
        IN  normalized = PyList(<<PyList(<<PyStr(PinnedForm(e[1])),
                                           PyStr(SpaceSeparated(Tail(e)))>>)>>)

C13_Witness ==
    /\ pc = "normalized"
    /\ history = PyList(<<PyList(<<PyStr("a"), PyStr("b"), PyStr("a"), PyStr(""), PyInt(7)>>)>>)
    /\ normalized = PyList(<<PyList(<<PyStr("a"), PyStr("b a  7")>>)>>)

\* the value a mapping holds under a key, read off its entries
KeyIndex(d, key) == CHOOSE i \in 1..Len(ValOf(d)) : ValOf(d)[i][1] = key
FieldText(d, key) ==
    IF \E i \in 1..Len(ValOf(d)) : ValOf(d)[i][1] = key
        THEN PinnedForm(ValOf(d)[KeyIndex(d, key)][2])
        ELSE ""

IsUserBot(e) == IsDict(e) /\ \E i \in 1..Len(ValOf(e)) : ValOf(e)[i][1] \in {"user", "bot"}
HasOtherKeys(e) == \E i \in 1..Len(ValOf(e)) : ValOf(e)[i][1] \in {"role", "content", "messages"}

\* C14: a mapping with a 'user' key, a 'bot' key or both gives exactly one
\* Turn [str(value of 'user'), str(value of 'bot')], with "" for a missing
\* key, whatever other keys ('role', 'content', 'messages') it also holds.
C14_UserBotMapping ==
    (/\ pc = "normalized"
     /\ TypeOf(history) = "list" /\ Len(Visited) = 1
     /\ IsUserBot(Visited[1])) =>
        normalized = PyList(<<PyList(<<PyStr(FieldText(Visited[1], "user")),
                                       PyStr(FieldText(Visited[1], "bot"))>>)>>)

C14_Witness ==
    /\ pc = "normalized"
    /\ Len(Visited) = 1 /\ IsUserBot(Visited[1]) /\ HasOtherKeys(Visited[1])
    /\ history = PyList(<<PyDict(<< <<"role", PyStr("assistant")>>,
                                    <<"content", PyStr("b")>>,
                                    <<"user", PyStr("a")>> >>)>>)
    /\ normalized = PyList(<<PyList(<<PyStr("a"), PyStr("")>>)>>)

HoldsKey(e, key) == \E i \in 1..Len(ValOf(e)) : ValOf(e)[i][1] = key
IsUnknownMapping(e) ==
    /\ IsDict(e)
    /\ ~HoldsKey(e, "user") /\ ~HoldsKey(e, "bot")
    /\ ~(HoldsKey(e, "role") /\ HoldsKey(e, "content"))
    /\ ~(HoldsKey(e, "messages")
            /\ TypeOf(ValOf(e)[KeyIndex(e, "messages")][2]) \in {"list", "tuple"})

\* str() of the mappings of no known shape, as Python prints them
MappingForm(e) ==
    CASE e = PyDict(<<>>) -> "{}"
      [] e = PyDict(<< <<"unknown_key", PyStr("value")>> >>) -> "{'unknown_key': 'value'}"
      [] e = PyDict(<< <<"role", PyStr("user")>> >>) -> "{'role': 'user'}"
      [] e = PyDict(<< <<"role", PyStr("assistant")>> >>) -> "{'role': 'assistant'}"
      [] e = PyDict(<< <<"content", PyStr("a")>> >>) -> "{'content': 'a'}"
      [] e = PyDict(<< <<"messages", PyStr("a")>> >>) -> "{'messages': 'a'}"
      [] e = PyDict(<< <<"messages", PyNone>>, <<"role", PyStr("user")>> >>)
            -> "{'messages': None, 'role': 'user'}"

\* C15: a scalar element (string, number, boolean) or a mapping of no known
\* shape gives exactly one Turn whose assistant_text is "" and whose
\* user_text is the string form of the whole element.
C15_FallbackTurn ==
    (/\ pc = "normalized"
     /\ TypeOf(history) = "list" /\ Len(Visited) = 1
     /\ (IsScalar(Visited[1]) \/ IsUnknownMapping(Visited[1]))) =>
        LET e == Visited[1]
            text == IF IsDict(e) THEN MappingForm(e) ELSE PinnedForm(e)
        IN  normalized = PyList(<<PyList(<<PyStr(text), PyStr("")>>)>>)

C15_Witness ==
    /\ pc = "normalized"
    /\ history = PyList(<<PyDict(<< <<"messages", PyNone>>, <<"role", PyStr("user")>> >>)>>)
    /\ normalized = PyList(<<PyList(<<PyStr("{'messages': None, 'role': 'user'}"),
                                      PyStr("")>>)>>)

\* C16: normalize_history returns the empty list for a None history and
\* for an empty list.
C16_EmptyHistory ==
    (pc = "normalized" /\ history \in {PyNone, PyList(<<>>)}) =>
        normalized = PyList(<<>>)

C16_Witness == pc = "normalized" /\ history = PyNone /\ normalized = PyList(<<>>)

\* C17: for every incoming history, to_internal_history returns a list in
\* which every element is a mapping with both a 'role' and a 'content' key.
C17_InternalIsMessageList ==
    pc = "internal" =>
        /\ TypeOf(internal) = "list"
        /\ \A i \in 1..PyLen(internal) :
              /\ IsDict(ValOf(internal)[i])
              /\ HoldsKey(ValOf(internal)[i], "role")
              /\ HoldsKey(ValOf(internal)[i], "content")

(***************************************************************************)
(* The handlers of src/src/ui.py and src/src/ollama_service.py             *)
(* Strings are written without their emoji.                                *)
(***************************************************************************)

\* ui.py:106
current_language == "Spanish"

\* config.py:48-55, the first of the six phrases
QUICK_PHRASES ==
    PyDict(<< <<"Greetings",
                PyStr("Teach me how to greet people politely in {language}")>> >>)

\* str.strip() on the messages typed in the model
strip(s) == IF s \in {"", " "} THEN "" ELSE s

\* str.replace("{language}", language) on the texts of the model
replace_language(s, language) ==
    CASE s = "Teach me how to greet people politely in {language}"
            -> "Teach me how to greet people politely in " \o language
      [] s = "say {language}" -> "say " \o language
      [] OTHER -> s

\* str.upper() on the language codes of the model
upper(s) == CASE s = "es" -> "ES" [] OTHER -> s

\* what WhisperService.transcribe_audio returns: <<text, language, error>>
WhisperResults ==
    {<<"hola", "es", PyNone>>,
     <<"", "es", PyNone>>,
     <<"", "", PyStr("Audio file is empty. Please record again.")>>}

\* whisper_service.py:102-131
transcribe_audio_with_feedback(result) ==
    IF Truthy(result[3]) THEN ValOf(result[3])
    ELSE IF result[1] = "" THEN "No speech detected. Please try again and speak clearly."
    ELSE "**Transcription:** " \o result[1] \o "\n"
            \o "**Detected Language:** " \o upper(result[2])

\* ollama_service.py:152-157, what the generator yields for a failed request
RequestErrors ==
    {"Request timed out. The model might be too slow. Try a smaller model.",
     "Cannot connect to Ollama. Make sure Ollama is running with 'ollama serve'."}

\* what the widget and the model can send
MaxSteps == 7     \* generator steps in one run; a request counts for three
MaxChunks == 2    \* chunks streamed in one call
TypedMessages == {"hi", " "}
PhraseKeys == {"Greetings", "Weather"}
AudioPaths == {PyNone, PyStr("clip.wav")}
ChunkTexts == {"", "x", "y"}

\* d[key] = value on a dict that holds the key
SetItem(d, key, value) ==
    PyDict([i \in 1..Len(ValOf(d)) |->
               IF ValOf(d)[i][1] = key THEN <<key, value>> ELSE ValOf(d)[i]])

\* a new assistant message for every chunk instead of growing the last one
SetLastContent_appending(h, text) ==
    PyList(Append(ValOf(h), Message("assistant", PyStr(text))))

\* history[-1]["content"] = response
SetLastContent(h, text) ==
    PyList([ValOf(h) EXCEPT ![PyLen(h)] = SetItem(ValOf(h)[PyLen(h)], "content", PyStr(text))])

\* what the widget can show when a run begins
ChatHistories ==
    {PyNone, PyList(<<>>),
     PyList(<<Message("user", PyStr("a")), Message("assistant", PyStr("b"))>>),
     PyList(<<PyList(<<PyStr("a"), PyStr("b")>>)>>),
     PyList(<<PyTuple(<<PyStr("a"), PyStr("")>>)>>),
     PyList(<<PyList(<<>>)>>),
     PyList(<<Message("user", PyStr("a")), PyStr("x")>>)}

InitChat ==
    /\ chatbot \in ChatHistories
    /\ GRADIO_V6 \in BOOLEAN
    /\ pc = "idle"
    /\ history = PyList(<<>>)
    /\ normalized = NotCalled
    /\ internal = NotCalled
    /\ messages = NotCalled
    /\ displayed = NotCalled
    /\ asked = ""
    /\ response = ""
    /\ updates = <<>>
    /\ chunks = <<>>
    /\ conversation_history = <<>>
    /\ full_response = ""
    /\ gen = "closed"
    /\ steps = 0
    /\ consumed = TRUE
    /\ NoScan

\* a handler that returns or raises before its first yield: it is a
\* generator function, so nothing reaches the widget
EndsSilently(h) ==
    /\ history' = chatbot
    /\ internal' = h
    /\ asked' = ""
    /\ response' = ""
    /\ updates' = <<>>
    /\ chunks' = <<>>
    /\ pc' = "idle"
    /\ UNCHANGED <<scanVars, chatbot, GRADIO_V6, normalized, messages, displayed,
                   conversation_history, full_response, gen, steps, consumed>>

\* ui.py:123-128, then generate_response up to its request
\* (ollama_service.py:98-126: append, build the messages, post), which the
\* loop header starts
BeginExchange(name, h, text) ==
    /\ steps + 3 <= MaxSteps
    /\ history' = chatbot
    /\ internal' = PyList(ValOf(h) \o <<Message("user", PyStr(text)),
                                        Message("assistant", PyStr(""))>>)
    /\ asked' = text
    /\ response' = ""
    /\ updates' = <<>>
    /\ chunks' = <<>>
    /\ conversation_history' =
          Append(conversation_history,
                 Message("user", PyStr(replace_language(text, current_language))))
    /\ full_response' = ""
    /\ gen' = "open"
    /\ steps' = steps + 3
    /\ pc' = name
    /\ UNCHANGED <<scanVars, chatbot, GRADIO_V6, normalized, messages, displayed, consumed>>

\* handle_text_message starting from an empty history instead of the shown one
handle_text_message_forgetting(message) ==
    /\ gen = "closed"
    /\ IF strip(message) = "" THEN EndsSilently(PyList(<<>>))
       ELSE BeginExchange("text", PyList(<<>>), message)

\* ui.py:108-135
handle_text_message(message) ==
    /\ gen = "closed"
    /\ LET h == to_internal_history(chatbot)
       IN  IF IsRaise(h) \/ strip(message) = "" THEN EndsSilently(h)
           ELSE BeginExchange("text", h, message)

\* ui.py:137-169
handle_audio_message(audio_path, result) ==
    /\ gen = "closed"
    /\ LET h == to_internal_history(chatbot)
           voice == Message("assistant",
                            PyStr("**Voice Input Detected**\n\n"
                                      \o transcribe_audio_with_feedback(result)))
           heard == PyList(ValOf(h) \o <<voice>>)
       IN  IF IsRaise(h) \/ ~Truthy(audio_path) THEN EndsSilently(h)
           ELSE IF result[1] # "" /\ ~Truthy(result[3])
               THEN BeginExchange("audio", heard, result[1])
           ELSE EndsSilently(heard)

\* ui.py:171-197
handle_quick_phrase(phrase_key) ==
    /\ gen = "closed"
    /\ LET h == to_internal_history(chatbot)
           phrase_template == ValOf(Get(QUICK_PHRASES, phrase_key, PyStr("")))
       IN  IF IsRaise(h) \/ phrase_template = "" THEN EndsSilently(h)
           ELSE BeginExchange("quick", h,
                              replace_language(phrase_template, current_language))

Streaming == gen = "open"

\* ui.py:129-132 (157-160, 190-193): the loop body for one chunk. When the
\* conversion raises, the handler dies and its generator is dropped unfinished.
ReceiveChunk(c, last) ==
    LET r == response \o c
        h == SetLastContent(internal, r)
        u == to_gradio_history(h)
    IN  /\ response' = r
        /\ internal' = h
        /\ chunks' = Append(chunks, c)
        /\ IF IsRaise(u)
              THEN /\ gen' = "closed"
                   /\ consumed' = FALSE
                   /\ UNCHANGED <<updates, chatbot>>
              ELSE /\ updates' = Append(updates, u)
                   /\ chatbot' = u
                   /\ gen' = IF last THEN "closed" ELSE gen
                   /\ UNCHANGED consumed

\* ollama_service.py:131-139: a line of the stream with a message in it
StreamChunk(c) ==
    /\ Streaming
    /\ Len(chunks) < MaxChunks
    /\ steps < MaxSteps
    /\ steps' = steps + 1
    /\ full_response' = full_response \o c
    /\ ReceiveChunk(c, FALSE)
    /\ UNCHANGED <<scanVars, history, GRADIO_V6, pc, normalized, messages, displayed,
                   asked, conversation_history>>

\* ollama_service.py:146-150: the stream is over; the handler's loop ends
\* and its return yields nothing more
StreamEnds ==
    /\ Streaming
    /\ conversation_history' =
          Append(conversation_history, Message("assistant", PyStr(full_response)))
    /\ gen' = "closed"
    /\ UNCHANGED <<scanVars, history, GRADIO_V6, pc, normalized, internal, messages, displayed,
                   chatbot, asked, response, updates, chunks, full_response, steps,
                   consumed>>

\* ollama_service.py:152-157: the request or the stream fails; the generator
\* yields the error text as its last chunk
RequestFails(e) ==
    /\ Streaming
    /\ ReceiveChunk(e, TRUE)
    /\ UNCHANGED <<scanVars, history, GRADIO_V6, pc, normalized, messages, displayed,
                   asked, conversation_history, full_response, steps>>

\* ui.py:203-205 with ollama_service.py:159-161
clear_conversation ==
    /\ gen = "closed"
    /\ conversation_history' = <<>>
    /\ chatbot' = PyList(<<>>)
    /\ UNCHANGED <<scanVars, history, GRADIO_V6, pc, normalized, internal, messages, displayed,
                   asked, response, updates, chunks, full_response, gen, steps,
                   consumed>>

NextChat ==
    \/ \E message \in TypedMessages : handle_text_message(message)
    \/ \E audio_path \in AudioPaths, result \in WhisperResults :
          handle_audio_message(audio_path, result)
    \/ \E phrase_key \in PhraseKeys : handle_quick_phrase(phrase_key)
    \/ \E c \in ChunkTexts : StreamChunk(c)
    \/ StreamEnds
    \/ \E e \in RequestErrors : RequestFails(e)
    \/ clear_conversation

SpecChat == InitChat /\ [][NextChat]_vars

(***************************************************************************)
(* C18 .. C20: the handlers and the conversation kept for the model        *)
(***************************************************************************)

\* c1 + ... + cj
RECURSIVE Concat(_)
Concat(texts) == IF texts = <<>> THEN "" ELSE Head(texts) \o Concat(Tail(texts))

\* C18: in message-list mode, for a non-blank message and chunks c1..cn,
\* handle_text_message yields one update per chunk, in chunk order, and the
\* j-th update is to_internal_history(incoming history) followed by
\* {role: user, content: message} and {role: assistant, content: c1+...+cj}
\* (stated where to_internal_history returns on the incoming history).
C18_OneUpdatePerChunk ==
    (GRADIO_V6 /\ pc = "text") =>
        /\ strip(asked) # ""
        /\ Len(updates) = Len(chunks)
        /\ \A j \in 1..Len(updates) :
              updates[j] =
                  PyList(ValOf(to_internal_history(history))
                             \o <<Message("user", PyStr(asked)),
                                  Message("assistant",
                                          PyStr(Concat(SubSeq(chunks, 1, j))))>>)

C18_Witness ==
    /\ GRADIO_V6 /\ pc = "text" /\ gen = "closed"
    /\ history = PyList(<<Message("user", PyStr("a")), Message("assistant", PyStr("b"))>>)
    /\ chunks = <<"x", "y">>
    /\ updates =
          <<PyList(<<Message("user", PyStr("a")), Message("assistant", PyStr("b")),
                     Message("user", PyStr("hi")), Message("assistant", PyStr("x"))>>),
            PyList(<<Message("user", PyStr("a")), Message("assistant", PyStr("b")),
                     Message("user", PyStr("hi")), Message("assistant", PyStr("xy"))>>)>>

\* a displayed history of legacy pairs: a list of 2-element lists or tuples of str
IsLegacyDisplay(h) ==
    /\ TypeOf(h) = "list"
    /\ \A i \in 1..PyLen(h) :
          /\ IsListOrTuple(ValOf(h)[i])
          /\ PyLen(ValOf(h)[i]) = 2
          /\ IsStr(ValOf(ValOf(h)[i])[1]) /\ IsStr(ValOf(ValOf(h)[i])[2])

\* the two texts of pair i
PairAt(h, i) == <<ValOf(ValOf(ValOf(h)[i])[1]), ValOf(ValOf(ValOf(h)[i])[2])>>

HandlerRan == pc \in {"text", "audio", "quick"}

\* C19 (as claimed): in legacy mode a handler that starts from a displayed
\* history D of legacy pairs keeps, in every update it yields, each pair of
\* D unchanged at its index, and only adds pairs after them.
C19_KeepsDisplayedPairs ==
    (~GRADIO_V6 /\ HandlerRan /\ IsLegacyDisplay(history)) =>
        \A j \in 1..Len(updates) :
            /\ PyLen(updates[j]) >= PyLen(history)
            /\ \A i \in 1..PyLen(history) : PairAt(updates[j], i) = PairAt(history, i)

\* every pair has an assistant text and every pair but the first a user text
Settled(h) ==
    \A i \in 1..PyLen(h) :
        /\ PairAt(h, i)[2] # ""
        /\ i > 1 => PairAt(h, i)[1] # ""

\* the message handle_audio_message adds for the clip the model understands
VoiceMessage ==
    "**Voice Input Detected**\n\n**Transcription:** hola\n**Detected Language:** ES"

\* C19 (amended): in legacy mode, when the displayed history D is a list of
\* legacy pairs that all have an assistant text and, but for the first, a
\* user text, every update of handle_text_message and handle_quick_phrase
\* keeps each pair of D unchanged at its index and adds exactly one pair
\* (message, response so far) after them; handle_audio_message does the
\* same except that the voice-input message is joined, after a newline, to
\* the assistant text of the last pair of D (or is a pair of its own when D
\* is empty).
C19_KeepsSettledPairs ==
    (~GRADIO_V6 /\ HandlerRan /\ IsLegacyDisplay(history) /\ Settled(history)) =>
        \A j \in 1..Len(updates) :
            LET u == updates[j]
                n == PyLen(history)
                added == <<asked, Concat(SubSeq(chunks, 1, j))>>
            IN  IF pc = "audio" /\ n = 0
                    THEN /\ PyLen(u) = 2
                         /\ PairAt(u, 1) = <<"", VoiceMessage>>
                         /\ PairAt(u, 2) = added
                ELSE /\ PyLen(u) = n + 1
                     /\ PairAt(u, n + 1) = added
                     /\ \A i \in 1..(n - 1) : PairAt(u, i) = PairAt(history, i)
                     /\ n > 0 =>
                           PairAt(u, n) =
                               IF pc = "audio"
                                   THEN <<PairAt(history, n)[1],
                                          PairAt(history, n)[2] \o "\n" \o VoiceMessage>>
                                   ELSE PairAt(history, n)

C19_Witness ==
    /\ ~GRADIO_V6 /\ pc = "text"
    /\ history = PyList(<<PyList(<<PyStr("a"), PyStr("b")>>)>>)
    /\ updates = <<PyList(<<PyTuple(<<PyStr("a"), PyStr("b")>>),
                            PyTuple(<<PyStr("hi"), PyStr("x")>>)>>),
                   PyList(<<PyTuple(<<PyStr("a"), PyStr("b")>>),
                            PyTuple(<<PyStr("hi"), PyStr("xy")>>)>>)>>

\* C20: with no generator open, every generate_response call so far run to
\* its end (succeeding or failing) and clear_history calls between them,
\* conversation_history alternates user, assistant, user, assistant, ...
\* from a user message to an assistant message; a failed request leaves it
\* as it was before the call and clear_history leaves it empty.
C20_StrictAlternation ==
    (gen = "closed" /\ consumed) =>
        /\ Len(conversation_history) % 2 = 0
        /\ \A i \in 1..Len(conversation_history) :
              RoleOf(conversation_history[i]) =
                  PyStr(IF i % 2 = 1 THEN "user" ELSE "assistant")

(***************************************************************************)
(* C21 .. C23: round trips, idempotence and the end of the scan            *)
(***************************************************************************)

\* both fields of every Turn are non-empty strings
AllFieldsFilled(turns) ==
    \A k \in 1..Len(turns) :
        /\ IsTurn(turns[k])
        /\ ValOf(ValOf(turns[k])[1]) # ""
        /\ ValOf(ValOf(turns[k])[2]) # ""

\* C21: for a sequence T of Turns whose fields are all non-empty strings,
\* the Turn-to-Message conversion of to_internal_history followed by the
\* legacy run-pairing of to_gradio_history gives T back: as many pairs as
\* Turns, the same two strings in each, in the same order.
C21_TurnRoundTrip ==
    (/\ pc = "returned" /\ ~GRADIO_V6
     /\ TakesNormalizingPath
     /\ ~IsRaise(normalize_history(history))
     /\ AllFieldsFilled(ValOf(normalize_history(history)))) =>
        LET T == ValOf(normalize_history(history))
        IN  /\ TypeOf(displayed) = "list"
            /\ PyLen(displayed) = Len(T)
            /\ \A k \in 1..Len(T) :
                  /\ IsPair(ValOf(displayed)[k])
                  /\ ValOf(ValOf(displayed)[k]) = ValOf(T[k])

C21_Witness ==
    /\ pc = "returned" /\ ~GRADIO_V6
    /\ history = PyList(<<PyList(<<PyInt(123), PyBool(TRUE)>>),
                          PyTuple(<<PyBool(FALSE), PyStr("a")>>)>>)
    /\ internal = PyList(<<Message("user", PyStr("123")), Message("assistant", PyStr("True")),
                           Message("user", PyStr("False")), Message("assistant", PyStr("a"))>>)
    /\ displayed = PyList(<<PyTuple(<<PyStr("123"), PyStr("True")>>),
                            PyTuple(<<PyStr("False"), PyStr("a")>>)>>)

\* a second call, on the first result or on the same payload, returns what
\* the first call returned and leaves the payload as it was
SecondCallAgrees ==
    [][pc' \in {"renormalized", "repeated"} =>
          /\ normalized' = normalized
          /\ history' = history]_vars

\* C22: normalize_history is idempotent on its own output: where it
\* returns, normalize_history(normalize_history(h)) equals
\* normalize_history(h); two calls on the same input return equal results
\* and the input is not modified.
C22_Idempotent ==
    /\ SecondCallAgrees
    /\ [](pc = "renormalized" => TypeOf(normalized) = "list")

C22_Witness ==
    /\ pc = "renormalized"
    /\ history = PyList(<<PyDict(<< <<"user", PyStr("a")>>, <<"bot", PyStr("")>> >>),
                          PyStr(""),
                          Message("assistant", PyStr("b"))>>)
    /\ normalized = PyList(<<PyList(<<PyStr("a"), PyStr("")>>),
                             PyList(<<PyStr(""), PyStr("")>>),
                             PyList(<<PyStr(""), PyStr("b")>>)>>)

\* ---------------------------------------------------------------------
\* The legacy scan of to_gradio_history, one iteration of the outer loop
\* at a time
\* ---------------------------------------------------------------------

\* messages of the two expected roles, with and without text, and of a third
ScanMessages ==
    {Message("user", PyStr("a")), Message("user", PyStr("")),
     Message("assistant", PyStr("b")), Message("assistant", PyStr("")),
     Message("system", PyStr("a"))}

\* non-empty lists of messages, and two whose content is no str
ScanHistories ==
    {PyList(x) : x \in SeqUpTo(ScanMessages, MaxMessages) \ {<<>>}}
        \cup {PyList(<<Message("user", PyStr("a")), Message("assistant", PyNone)>>),
              PyList(<<Message("system", PyStr("a")), Message("user", PyInt(7))>>)}

\* a widget of version 5 before to_gradio_history is called
InitScan ==
    /\ history = PyList(<<>>)
    /\ GRADIO_V6 = FALSE
    /\ pc = "start"
    /\ normalized = NotCalled
    /\ internal = NotCalled
    /\ messages = NotCalled
    /\ displayed = NotCalled
    /\ NoChat
    /\ NoScan

\* ui.py:55-71: to_gradio_history(h) passes its two early returns and sets
\* legacy = [] and i = 0
BeginScan ==
    /\ pc = "start"
    /\ \E h \in ScanHistories :
          /\ history' = h
          /\ messages' = h
          /\ visits' = [k \in 1..PyLen(h) |-> 0]
    /\ index' = 0
    /\ legacy_pairs' = <<>>
    /\ pc' = "scanning"
    /\ UNCHANGED <<GRADIO_V6, normalized, internal, displayed, chatVars>>

\* ui.py:73-96: the body of `while i < len(history)`, run once
ScanIteration ==
    /\ pc = "scanning"
    /\ index < PyLen(messages)
    /\ \E s \in {scan_step(ValOf(messages), index)} :
           IF IsRaise(s)
           THEN /\ displayed' = s
                /\ pc' = "raised"
                /\ UNCHANGED scanVars
           ELSE /\ index' = ValOf(s).i
                /\ legacy_pairs' = legacy_pairs \o ValOf(s).emit
                /\ visits' = [k \in DOMAIN visits |->
                                 IF index < k /\ k <= ValOf(s).i
                                 THEN visits[k] + 1 ELSE visits[k]]
                /\ UNCHANGED <<pc, displayed>>
    /\ UNCHANGED <<history, GRADIO_V6, normalized, internal, messages, chatVars>>

\* ui.py:73 and 98: the loop condition fails and `legacy` is returned
ScanReturn ==
    /\ pc = "scanning"
    /\ index >= PyLen(messages)
    /\ displayed' = PyList(legacy_pairs)
    /\ pc' = "scanned"
    /\ UNCHANGED <<scanVars, history, GRADIO_V6, normalized, internal, messages,
                   chatVars>>

NextScan ==
    \/ BeginScan
    \/ ScanIteration
    \/ ScanReturn

\* the loop is sequential code: while a statement is left to run, it is run
SpecScan == InitScan /\ [][NextScan]_vars /\ WF_vars(NextScan)

\* the index stays within the list, and an iteration that is about to run
\* ends at a larger index
ScanInRange ==
    pc \in {"scanning", "scanned"} =>
        /\ index \in 0..PyLen(messages)
        /\ (pc = "scanning" /\ index < PyLen(messages)
                /\ ~IsRaise(scan_step(ValOf(messages), index))) =>
               /\ ValOf(scan_step(ValOf(messages), index)).i >= index + 1
               /\ ValOf(scan_step(ValOf(messages), index)).i <= PyLen(messages)

\* every iteration that has run moved the index forward
ScanAdvances == [][index' # index => index' >= index + 1]_vars

\* the messages before the index have been passed once, the others not yet
VisitedOnce ==
    pc \in {"scanning", "scanned"} =>
        \A k \in DOMAIN visits : visits[k] = (IF k <= index THEN 1 ELSE 0)

\* the loop has stopped: it returned the pairs or an exception left it
ScanOver == pc \in {"scanned", "raised"}

\* C23: the legacy scan of to_gradio_history terminates on every finite list
\* of messages: each iteration of the outer loop moves the index forward by
\* at least one, the index never passes the length of the list, each message
\* is passed exactly once, and the loop ends with the index at the length and
\* the pairs that to_gradio_history returns.
C23_ScanTerminates ==
    /\ []ScanInRange
    /\ ScanAdvances
    /\ []VisitedOnce
    /\ <>ScanOver
    /\ [](pc = "scanned" =>
            /\ index = PyLen(messages)
            /\ \A k \in DOMAIN visits : visits[k] = 1
            /\ displayed = to_gradio_history(messages))

C23_Witness ==
    /\ pc = "scanned"
    /\ messages = PyList(<<Message("user", PyStr("a")), Message("system", PyStr("a")),
                           Message("assistant", PyStr("b"))>>)
    /\ index = 3
    /\ visits = <<1, 1, 1>>
    /\ displayed = PyList(<<PyTuple(<<PyStr("a"), PyStr("")>>),
                            PyTuple(<<PyStr(""), PyStr("b")>>)>>)

====
